---- MODULE Spec2Model ----
(***************************************************************************)
(* Model of DynamoDbBundleServiceHelper                                    *)
(* (src/src/dataServices/dynamoDbBundleServiceHelper.ts): the staging      *)
(* request generator, the rollback request generator and the read-result   *)
(* reconciler of the DynamoDB bundle service.                              *)
(*                                                                         *)
(* JavaScript values are modelled as follows.                              *)
(*   - identifiers, tenant ids, operations, statuses: TLA+ strings; the    *)
(*     empty string stands for a falsy (absent) id or tenant id;           *)
(*   - decimal strings (meta.versionId, response vid, DynamoDB N values):  *)
(*     sequences of one-character strings, so that Number.toString and     *)
(*     parseInt are computed digit by digit;                               *)
(*   - a possibly-undefined number: a sequence of length 0 (undefined) or  *)
(*     1 (the number).                                                     *)
(***************************************************************************)
EXTENDS Integers, Sequences, FiniteSets

\* ------------------------------------------------------------------ bounds
MaxLen == 3          \* longest batch of requests handed to the generator
MaxVersion == 10     \* largest current version in the version mapping
MaxResp == 3         \* longest free-standing response list
MaxRaw == 3          \* longest raw read-result list

\* --------------------------------------------------------------- constants
Ids == {"a", "b"}
NoId == ""
Tenants == {"", "t1"}
ResourceTypeName == "Patient"
RESOURCE_TABLE == "resource-table"
PENDING == "PENDING"
LOCKED == "LOCKED"
PENDING_DELETE == "PENDING_DELETE"
Now == "now"
Uuids == <<"u1", "u2", "u3", "u4", "u5">>
DigitChars == <<"0", "1", "2", "3", "4", "5", "6", "7", "8", "9">>
UndefinedStr == <<"u", "n", "d", "e", "f", "i", "n", "e", "d">>

\* Current versions sampled for the mapping: the smallest, and the two
\* largest (so that V + 1 crosses from one decimal digit to two).
Versions == {v \in 1..MaxVersion : v = 1 \/ v >= MaxVersion - 1}

\* ------------------------------------------------------- number <-> string
\* Number.prototype.toString() of a non-negative integer.
RECURSIVE toString(_)
toString(n) ==
    IF n < 10 THEN <<DigitChars[n + 1]>>
    ELSE Append(toString(n \div 10), DigitChars[(n % 10) + 1])

IsDigit(c) == \E d \in 1..10 : DigitChars[d] = c
DigitVal(c) == (CHOOSE d \in 1..10 : DigitChars[d] = c) - 1

\* The leading run of decimal digits of s.
RECURSIVE LeadingDigits(_)
LeadingDigits(s) ==
    IF s = <<>> \/ ~IsDigit(Head(s)) THEN <<>>
    ELSE <<Head(s)>> \o LeadingDigits(Tail(s))

RECURSIVE DigitsValue(_, _)
DigitsValue(s, acc) ==
    IF s = <<>> THEN acc ELSE DigitsValue(Tail(s), acc * 10 + DigitVal(Head(s)))

\* parseInt(s, 10): the value of the leading digits; <<>> stands for NaN.
parseInt(s) ==
    IF LeadingDigits(s) = <<>> THEN <<>> ELSE <<DigitsValue(LeadingDigits(s), 0)>>

\* String(x) of a possibly-NaN or possibly-undefined number (<<>>).
numberToString(opt) == IF opt = <<>> THEN <<"N", "a", "N">> ELSE toString(opt[1])

\* ------------------------------------------------------------ collaborators
\* buildHashKey(id, tenantId)
buildHashKey(id, tenantId) == IF tenantId # "" THEN tenantId \o "|" \o id ELSE id

\* DynamoDBConverter.marshall of a row key {id, vid}: a string becomes an S
\* attribute, a number an N attribute holding its decimal string.
marshallKey(id, vid) == [id |-> [S |-> id], vid |-> [N |-> numberToString(vid)]]

\* DynamoDbUtil.prepItemForDdbInsert: the row to insert, with a system
\* generated meta.versionId (the decimal string of vid) and meta.lastUpdated.
prepItemForDdbInsert(resource, id, vid, documentStatus, tenantId) ==
    [id |-> buildHashKey(id, tenantId),
     vid |-> vid,
     resourceType |-> resource.resourceType,
     meta |-> [versionId |-> toString(vid), lastUpdated |-> Now],
     documentStatus |-> documentStatus]

\* DynamoDBConverter.marshall of a prepared item.
marshall(Item) ==
    [id |-> [S |-> Item.id],
     vid |-> [N |-> toString(Item.vid)],
     resourceType |-> [S |-> Item.resourceType],
     versionId |-> [S |-> Item.meta.versionId],
     documentStatus |-> [S |-> Item.documentStatus]]

\* DynamoDbParamBuilder.buildUpdateDocumentStatusParam
buildUpdateDocumentStatusParam(oldStatus, newStatus, id, vid, resourceType, tenantId) ==
    [Update |-> [TableName |-> RESOURCE_TABLE,
                 Key |-> marshallKey(buildHashKey(id, tenantId), vid),
                 oldStatus |-> oldStatus,
                 newStatus |-> newStatus]]

\* DynamoDbParamBuilder.buildDeleteParam
buildDeleteParam(id, vid, tenantId) ==
    [Delete |-> [TableName |-> RESOURCE_TABLE,
                 Key |-> marshallKey(buildHashKey(id, tenantId), vid)]]

\* The row (hash key, version) a marshalled key addresses.
KeyRow(Key) == <<Key.id.S, parseInt(Key.vid.N)>>
PutRow(put) == KeyRow(put.Put.Item)
DeleteRow(del) == KeyRow(del.Delete.Key)

\* uuidv4(): the n-th call of one run returns the n-th identifier of a pool
\* of pairwise distinct identifiers, none of them in Ids.
uuidv4(n) == Uuids[n]

\* idToVersionId[id]: undefined (<<>>) when the mapping has no such key.
Lookup(map, id) == IF id \in DOMAIN map THEN <<map[id]>> ELSE <<>>

\* (x || 0) for a possibly-undefined number.
OrZero(opt) == IF opt = <<>> THEN 0 ELSE opt[1]

\* ---------------------------------------------- generateStagingRequests
\* Mutant: the flag is set on every lock descriptor.
FlagOnEveryLock(operation) == TRUE

\* if (operation === 'update') itemLocked.isOriginalUpdateItem = false
SetsOriginalUpdateFlag(operation) == operation = "update"

\* Mutant: the update reuses the current version.
UpdateVidNoIncrement(idToVersionId, id) == OrZero(Lookup(idToVersionId, id))

\* const vid = (idToVersionId[id] || 0) + 1
UpdateVid(idToVersionId, id) == OrZero(Lookup(idToVersionId, id)) + 1

\* Mutant: String(vid), which never throws.
NeverThrows(vid) == FALSE

\* vid.toString(): a TypeError when vid is undefined
ToStringThrows(vid) == vid = <<>>

\* The string of a version that toString was called on without a throw.
vidToString(vid) == IF vid = <<>> THEN UndefinedStr ELSE toString(vid[1])

\* addStagingResponseAndItemsLocked(operation, resource)
addStagingResponseAndItemsLocked(operation, resource) ==
    LET stagingResponse ==
            [id |-> resource.id,
             vid |-> resource.meta.versionId,
             operation |-> operation,
             lastModified |-> resource.meta.lastUpdated,
             resourceType |-> resource.resourceType,
             resource |-> resource]
        itemLocked ==
            [id |-> resource.id,
             vid |-> parseInt(resource.meta.versionId),
             resourceType |-> resource.resourceType,
             operation |-> operation]
    IN  [stagingResponse |-> stagingResponse,
         itemLocked |-> IF SetsOriginalUpdateFlag(operation)
                        THEN [f \in DOMAIN itemLocked \cup {"isOriginalUpdateItem"} |->
                                IF f = "isOriginalUpdateItem" THEN FALSE ELSE itemLocked[f]]
                        ELSE itemLocked]

\* {...request.resource, meta: {...Item.meta}, id}
WithMeta(resource, meta, id) ==
    [id |-> id, resourceType |-> resource.resourceType, meta |-> meta]

\* The accumulators of one run of the forEach loop; threw records an
\* exception that ended the call, uuids the number of uuidv4() calls made.
EmptyAcc ==
    [threw |-> FALSE, uuids |-> 0,
     deleteRequests |-> <<>>, createRequests |-> <<>>, updateRequests |-> <<>>,
     readRequests |-> <<>>, newLocks |-> <<>>, newBundleEntryResponses |-> <<>>]

\* case 'create': uuidv4() is called for every create, and its result is
\* replaced by request.id when that is truthy.
StageCreate(acc, request, idToVersionId, tenantId) ==
    LET generated == uuidv4(acc.uuids + 1)
        id == IF request.id # "" THEN request.id ELSE generated
        vid == 1
        Item == prepItemForDdbInsert(request.resource, id, vid, PENDING, tenantId)
        r == addStagingResponseAndItemsLocked(request.operation,
                                              WithMeta(request.resource, Item.meta, id))
    IN  [acc EXCEPT
            !.uuids = @ + 1,
            !.createRequests =
                Append(@, [Put |-> [TableName |-> RESOURCE_TABLE, Item |-> marshall(Item)]]),
            !.newBundleEntryResponses = @ \o <<r.stagingResponse>>,
            !.newLocks = @ \o <<r.itemLocked>>]

\* case 'update'
StageUpdate(acc, request, idToVersionId, tenantId) ==
    LET id == request.resource.id
        vid == UpdateVid(idToVersionId, id)
        Item == prepItemForDdbInsert(request.resource, id, vid, PENDING, tenantId)
        r == addStagingResponseAndItemsLocked(request.operation,
                                              WithMeta(request.resource, Item.meta, id))
    IN  [acc EXCEPT
            !.updateRequests =
                Append(@, [Put |-> [TableName |-> RESOURCE_TABLE, Item |-> marshall(Item)]]),
            !.newBundleEntryResponses = @ \o <<r.stagingResponse>>,
            !.newLocks = @ \o <<r.itemLocked>>]

\* case 'delete': vid.toString() throws a TypeError when vid is undefined.
StageDelete(acc, request, idToVersionId, tenantId) ==
    LET id == request.id
        vid == Lookup(idToVersionId, id)
    IN  IF ToStringThrows(vid) THEN [acc EXCEPT !.threw = TRUE]
        ELSE [acc EXCEPT
                !.deleteRequests =
                    Append(@, buildUpdateDocumentStatusParam(LOCKED, PENDING_DELETE, id,
                                                             vid, request.resourceType,
                                                             tenantId)),
                !.newBundleEntryResponses =
                    Append(@, [id |-> id,
                               vid |-> vidToString(vid),
                               operation |-> request.operation,
                               lastModified |-> Now,
                               resource |-> [empty |-> TRUE],
                               resourceType |-> request.resourceType])]

\* case 'read': vid.toString() throws a TypeError when vid is undefined.
StageRead(acc, request, idToVersionId, tenantId) ==
    LET id == request.id
        vid == Lookup(idToVersionId, id)
    IN  IF ToStringThrows(vid) THEN [acc EXCEPT !.threw = TRUE]
        ELSE [acc EXCEPT
                !.readRequests =
                    Append(@, [Get |-> [TableName |-> RESOURCE_TABLE,
                                        Key |-> marshallKey(buildHashKey(id, tenantId),
                                                            vid)]]),
                !.newBundleEntryResponses =
                    Append(@, [id |-> id,
                               vid |-> vidToString(vid),
                               operation |-> request.operation,
                               lastModified |-> "",
                               resource |-> [empty |-> TRUE],
                               resourceType |-> request.resourceType])]

\* switch (request.operation), with its default branch
StageOne(acc, request, idToVersionId, tenantId) ==
    CASE request.operation = "create" -> StageCreate(acc, request, idToVersionId, tenantId)
      [] request.operation = "update" -> StageUpdate(acc, request, idToVersionId, tenantId)
      [] request.operation = "delete" -> StageDelete(acc, request, idToVersionId, tenantId)
      [] request.operation = "read" -> StageRead(acc, request, idToVersionId, tenantId)
      [] OTHER -> acc

\* requests.forEach(...): an exception ends the loop.
RECURSIVE StageLoop(_, _, _, _)
StageLoop(acc, reqs, idToVersionId, tenantId) ==
    IF reqs = <<>> \/ acc.threw THEN acc
    ELSE StageLoop(StageOne(acc, Head(reqs), idToVersionId, tenantId),
                   Tail(reqs), idToVersionId, tenantId)

\* generateStagingRequests(requests, idToVersionId, tenantId): what the call
\* returns; when it throws nothing is returned (threw, and every list empty).
generateStagingRequests(reqs, idToVersionId, tenantId) ==
    LET acc == StageLoop(EmptyAcc, reqs, idToVersionId, tenantId)
    IN  IF acc.threw
        THEN [threw |-> TRUE,
              deleteRequests |-> <<>>, createRequests |-> <<>>, updateRequests |-> <<>>,
              readRequests |-> <<>>, newLocks |-> <<>>, newStagingResponses |-> <<>>]
        ELSE [threw |-> FALSE,
              deleteRequests |-> acc.deleteRequests,
              createRequests |-> acc.createRequests,
              updateRequests |-> acc.updateRequests,
              readRequests |-> acc.readRequests,
              newLocks |-> acc.newLocks,
              newStagingResponses |-> acc.newBundleEntryResponses]

\* --------------------------------------------- generateRollbackRequests
\* Mutant: the compensating delete is built without the tenant scope.
DeleteLatestWithoutTenant(resourceType, id, vid, tenantId) ==
    [transactionRequest |-> buildDeleteParam(id, parseInt(vid), ""),
     itemToRemoveFromLock |-> [id |-> id, vid |-> vid, resourceType |-> resourceType]]

\* Mutant: the compensating delete addresses the version before the staged one.
DeletePreviousRecord(resourceType, id, vid, tenantId) ==
    [transactionRequest |-> buildDeleteParam(id, <<OrZero(parseInt(vid)) - 1>>, tenantId),
     itemToRemoveFromLock |-> [id |-> id, vid |-> vid, resourceType |-> resourceType]]

\* generateDeleteLatestRecordAndItemToRemoveFromLock(resourceType, id, vid, tenantId)
generateDeleteLatestRecordAndItemToRemoveFromLock(resourceType, id, vid, tenantId) ==
    [transactionRequest |-> buildDeleteParam(id, parseInt(vid), tenantId),
     itemToRemoveFromLock |-> [id |-> id, vid |-> vid, resourceType |-> resourceType]]

\* Mutant: only 'create' entries are compensated.
RollbackOnlyCreate(acc, stagingResponse, tenantId) ==
    IF stagingResponse.operation = "create"
    THEN LET r == generateDeleteLatestRecordAndItemToRemoveFromLock(
                      stagingResponse.resourceType, stagingResponse.id,
                      stagingResponse.vid, tenantId)
         IN  [transactionRequests |-> acc.transactionRequests \o <<r.transactionRequest>>,
              itemsToRemoveFromLock |-> acc.itemsToRemoveFromLock \o <<r.itemToRemoveFromLock>>]
    ELSE acc

\* One iteration of bundleEntryResponses.forEach(...)
RollbackOne(acc, stagingResponse, tenantId) ==
    IF stagingResponse.operation \in {"create", "update"}
    THEN LET r == generateDeleteLatestRecordAndItemToRemoveFromLock(
                      stagingResponse.resourceType, stagingResponse.id,
                      stagingResponse.vid, tenantId)
         IN  [transactionRequests |-> acc.transactionRequests \o <<r.transactionRequest>>,
              itemsToRemoveFromLock |-> acc.itemsToRemoveFromLock \o <<r.itemToRemoveFromLock>>]
    ELSE acc

RECURSIVE RollbackLoop(_, _, _)
RollbackLoop(acc, responses, tenantId) ==
    IF responses = <<>> THEN acc
    ELSE RollbackLoop(RollbackOne(acc, Head(responses), tenantId), Tail(responses), tenantId)

\* generateRollbackRequests(bundleEntryResponses, tenantId)
generateRollbackRequests(bundleEntryResponses, tenantId) ==
    RollbackLoop([transactionRequests |-> <<>>, itemsToRemoveFromLock |-> <<>>],
                 bundleEntryResponses, tenantId)

\* ---------------------------- populateBundleEntryResponseWithReadResult
\* DynamoDBConverter.unmarshall of a row: S attributes become strings, N
\* attributes numbers, the M attribute meta a plain object.
unmarshall(item) ==
    [id |-> item.id.S,
     vid |-> parseInt(item.vid.N),
     resourceType |-> item.resourceType.S,
     documentStatus |-> item.documentStatus.S,
     meta |-> [f \in DOMAIN item.meta.M |-> item.meta.M[f].S]]

\* DynamoDbUtil.cleanItem: the row without its internal fields.
cleanItem(item) == [id |-> item.id, resourceType |-> item.resourceType, meta |-> item.meta]

\* readResult?.Responses[index]?.Item, index counted from 0: <<>> when
\* readResult is undefined, has no such entry, or the entry has no Item.
\* (A readResult without Responses makes the same expression throw a
\* TypeError at the first read entry; every readResult here has Responses.)
ItemAt(result, index) ==
    IF result = <<>> THEN <<>>
    ELSE IF index + 1 \notin DOMAIN result[1].Responses THEN <<>>
    ELSE result[1].Responses[index + 1].Item

\* item?.meta?.lastUpdated ? item.meta.lastUpdated : ''
LastUpdatedOf(item) ==
    IF "lastUpdated" \in DOMAIN item.meta THEN item.meta.lastUpdated ELSE ""

\* Mutant: the read index is never advanced.
SameIndex(index) == index

\* index += 1
NextIndex(index) == index + 1

\* The for loop from position i on, over the array the caller handed over:
\* array is that (shared) array when the loop ends or throws.
RECURSIVE PopulateLoop(_, _, _, _)
PopulateLoop(array, result, i, index) ==
    IF i > Len(array) THEN [threw |-> FALSE, array |-> array]
    ELSE IF array[i].operation = "read"
    THEN IF ItemAt(result, index) = <<>>
         THEN [threw |-> TRUE, array |-> array]
         ELSE LET item == cleanItem(unmarshall(ItemAt(result, index)[1]))
              IN  PopulateLoop([array EXCEPT ![i].resource = item,
                                             ![i].lastModified = LastUpdatedOf(item)],
                               result, i + 1, NextIndex(index))
    ELSE PopulateLoop(array, result, i + 1, index)

\* Mutant: the loop works on a copy, so a failed call leaves the caller's
\* array as it was.
PopulateOnCopy(responses, result) ==
    LET r == PopulateLoop(responses, result, 1, 0)
    IN  [threw |-> r.threw,
         array |-> IF r.threw THEN responses ELSE r.array,
         returned |-> IF r.threw THEN <<>> ELSE r.array]

\* populateBundleEntryResponseWithReadResult(bundleEntryResponses, readResult):
\* array is the caller's array after the call, returned what the call
\* returned (nothing when it threw).
populateBundleEntryResponseWithReadResult(responses, result) ==
    LET r == PopulateLoop(responses, result, 1, 0)
    IN  [threw |-> r.threw,
         array |-> r.array,
         returned |-> IF r.threw THEN <<>> ELSE r.array]

\* ------------------------------------------------------------------ state
VARIABLES
    pc,                    \* where the caller of the helper stands
    requests,              \* the batch handed to generateStagingRequests
    idToVersionId,         \* the caller's snapshot of the current versions
    tenantId,              \* the tenant scope ("" when absent)
    staging,               \* what generateStagingRequests returned
    executed,              \* how many response entries had their writes executed
    store,                 \* the rows (hash key, version) of the resource table
    rollback,              \* what generateRollbackRequests returned
    bundleEntryResponses,  \* the caller's response array
    responsesBefore,       \* the caller's response array as it was handed over
    readResult,            \* the raw result of the batched read
    populated,             \* the outcome of populateBundleEntryResponseWithReadResult
    bundles                \* two concurrent bundles: their staging, puts, rollbacks

vars == <<pc, requests, idToVersionId, tenantId, staging, executed, store, rollback,
          bundleEntryResponses, responsesBefore, readResult, populated, bundles>>

\* ----------------------------------------------------------------- inputs
Resource(id) == [id |-> id, resourceType |-> ResourceTypeName]

Request(operation, id, resourceId) ==
    [operation |-> operation, id |-> id, resourceType |-> ResourceTypeName,
     resource |-> Resource(resourceId)]

\* A create may come without an id; an update names its id in the resource;
\* 'patch' is an operation of the interface's TypeOperation that the switch
\* has no case for.
RequestSet ==
    {Request("create", id, NoId) : id \in Ids \cup {NoId}}
    \cup {Request("update", id, id) : id \in Ids}
    \cup {Request("delete", id, NoId) : id \in Ids}
    \cup {Request("read", id, NoId) : id \in Ids}
    \cup {Request("patch", "a", "a")}

SeqsUpTo(S, n) == UNION {[1..k -> S] : k \in 0..n}

Mappings == UNION {[D -> Versions] : D \in SUBSET Ids}

NoStaging == generateStagingRequests(<<>>, <<>>, "")
NoRollback == generateRollbackRequests(<<>>, "")
NoPopulated == [threw |-> FALSE, returned |-> <<>>]

\* The rows the table holds for the current versions of the snapshot.
CurrentRows(map, tenant) == {<<buildHashKey(id, tenant), <<map[id]>>>> : id \in DOMAIN map}

\* --------------------------------------------- staging, failure, rollback
Prefix(s, k) == SubSeq(s, 1, k)
Range(s) == {s[i] : i \in DOMAIN s}
Count(s, ops) == Cardinality({i \in DOMAIN s : s[i].operation \in ops})

\* The put writes staged for the create/update entries among the first k
\* responses: createRequests and updateRequests each keep the order of
\* their entries.
PrefixPuts(st, k) ==
    Range(Prefix(st.createRequests, Count(Prefix(st.newStagingResponses, k), {"create"})))
    \cup Range(Prefix(st.updateRequests, Count(Prefix(st.newStagingResponses, k), {"update"})))

\* The lock descriptors staged for them, in order.
PrefixLocks(st, k) ==
    Prefix(st.newLocks, Count(Prefix(st.newStagingResponses, k), {"create", "update"}))

Init ==
    /\ pc = "init"
    /\ requests \in SeqsUpTo(RequestSet, MaxLen)
    /\ idToVersionId \in Mappings
    /\ tenantId \in Tenants
    /\ staging = NoStaging
    /\ executed = 0
    /\ store = CurrentRows(idToVersionId, tenantId)
    /\ rollback = NoRollback
    /\ bundleEntryResponses = <<>>
    /\ responsesBefore = <<>>
    /\ readResult = <<>>
    /\ populated = NoPopulated
    /\ bundles = <<>>

\* The caller stages the batch.
Stage ==
    /\ pc = "init"
    /\ staging' = generateStagingRequests(requests, idToVersionId, tenantId)
    /\ pc' = IF staging'.threw THEN "threw" ELSE "staged"
    /\ UNCHANGED <<requests, idToVersionId, tenantId, executed, store, rollback,
                   bundleEntryResponses, responsesBefore, readResult, populated, bundles>>

\* The caller executes the puts staged for the first k response entries,
\* and then the bundle fails.
ExecuteStaged ==
    /\ pc = "staged"
    /\ \E k \in 0..Len(staging.newStagingResponses) :
          /\ executed' = k
          /\ store' = store \cup {PutRow(p) : p \in PrefixPuts(staging, k)}
    /\ pc' = "failed"
    /\ UNCHANGED <<requests, idToVersionId, tenantId, staging, rollback,
                   bundleEntryResponses, responsesBefore, readResult, populated, bundles>>

\* The caller rolls back what was staged before the failure and executes
\* the compensating deletes.
Rollback ==
    /\ pc = "failed"
    /\ rollback' = generateRollbackRequests(Prefix(staging.newStagingResponses, executed),
                                            tenantId)
    /\ store' = store \ {DeleteRow(d) : d \in Range(rollback'.transactionRequests)}
    /\ pc' = "rolledback"
    /\ UNCHANGED <<requests, idToVersionId, tenantId, staging, executed,
                   bundleEntryResponses, responsesBefore, readResult, populated, bundles>>

Next == Stage \/ ExecuteStaged \/ Rollback

Spec == Init /\ [][Next]_vars

\* ------------------------------------------------- claims on the staging
Returned == pc \in {"staged", "failed", "rolledback"}
Called == pc # "init"

IsRecognized(request) == request.operation \in {"create", "update", "delete", "read"}
IsCreateOrUpdate(entry) == entry.operation \in {"create", "update"}

\* The put write staged for response entry j (a create or an update).
PutOf(st, j) ==
    LET op == st.newStagingResponses[j].operation
        n == Count(Prefix(st.newStagingResponses, j), {op})
    IN  IF op = "create" THEN st.createRequests[n] ELSE st.updateRequests[n]

\* The lock descriptor staged for response entry j (a create or an update).
LockOf(st, j) ==
    st.newLocks[Count(Prefix(st.newStagingResponses, j), {"create", "update"})]

\* C1: the returned response sequence has the length of the input operation
\* sequence, and responses[i].operation = operations[i].operation for all i.
C1_OrderAndCardinality ==
    Returned =>
        /\ Len(staging.newStagingResponses) = Len(requests)
        /\ \A i \in DOMAIN requests :
              i \in DOMAIN staging.newStagingResponses
              /\ staging.newStagingResponses[i].operation = requests[i].operation

\* C2: after a failure at any point, the compensating deletes address exactly
\* the rows of the puts staged for the create/update entries of the executed
\* prefix, the lock releases name the identifier and version of the lock
\* descriptors staged for them, and no row the bundle staged is left.
C2_RollbackUndoesStaging ==
    pc = "rolledback" =>
        LET staged == {PutRow(p) : p \in PrefixPuts(staging, executed)}
            locks == PrefixLocks(staging, executed)
            rel == rollback.itemsToRemoveFromLock
        IN  /\ {DeleteRow(d) : d \in Range(rollback.transactionRequests)} = staged
            /\ Len(rel) = Len(locks)
            /\ \A i \in DOMAIN rel :
                  /\ rel[i].id = locks[i].id
                  /\ parseInt(rel[i].vid) = locks[i].vid
            /\ store \cap staged = {}

C2_Witness ==
    /\ pc = "rolledback"
    /\ executed >= 1
    /\ executed < Len(staging.newStagingResponses)
    /\ Len(rollback.transactionRequests) >= 1
    /\ Len(rollback.transactionRequests) < Len(staging.newLocks)
    /\ tenantId # ""

\* C4: every create entry is staged with version 1 and every update entry of
\* an identifier whose current version in the mapping is V with version
\* V + 1; the put write, the lock descriptor and the response carry it.
C4_VersionAssignment ==
    Returned =>
        LET rec == SelectSeq(requests, IsRecognized)
            rsp == staging.newStagingResponses
        IN  \A j \in DOMAIN rsp :
              LET expected ==
                      IF rec[j].operation = "create" THEN <<1>>
                      ELSE <<idToVersionId[rec[j].resource.id] + 1>>
              IN  (rec[j].operation = "create"
                   \/ (rec[j].operation = "update"
                       /\ rec[j].resource.id \in DOMAIN idToVersionId))
                  => /\ PutRow(PutOf(staging, j))[2] = expected
                     /\ LockOf(staging, j).vid = expected
                     /\ parseInt(rsp[j].vid) = expected
                     /\ Len(rsp[j].vid) = IF expected[1] < 10 THEN 1 ELSE 2

C4_Witness ==
    /\ Returned
    /\ \E i, j \in DOMAIN requests :
          /\ requests[i].operation = "create"
          /\ requests[j].operation = "update"
          /\ requests[j].resource.id \in DOMAIN idToVersionId
          /\ idToVersionId[requests[j].resource.id] + 1 >= 10

\* C5: exactly one lock descriptor per create/update entry and none per
\* delete/read entry; the descriptors of updates carry isOriginalUpdateItem
\* = false and those of creates carry no such flag.
C5_LockDescriptors ==
    Returned =>
        LET cu == SelectSeq(requests, IsCreateOrUpdate)
        IN  /\ Len(staging.newLocks) = Len(cu)
            /\ \A k \in DOMAIN cu :
                  LET lock == staging.newLocks[k]
                  IN  /\ lock.operation = cu[k].operation
                      /\ cu[k].operation = "update" =>
                            /\ lock.id = cu[k].resource.id
                            /\ "isOriginalUpdateItem" \in DOMAIN lock
                            /\ lock.isOriginalUpdateItem = FALSE
                      /\ cu[k].operation = "create" =>
                            /\ cu[k].id # "" => lock.id = cu[k].id
                            /\ "isOriginalUpdateItem" \notin DOMAIN lock

C5_Witness ==
    /\ Returned
    /\ \E i, j, k \in DOMAIN requests :
          /\ requests[i].operation = "create"
          /\ requests[j].operation = "update"
          /\ requests[k].operation \in {"delete", "read"}

\* A delete or read names an identifier absent from the version mapping.
UnknownVersionReference ==
    \E i \in DOMAIN requests :
        /\ requests[i].operation \in {"delete", "read"}
        /\ requests[i].id \notin DOMAIN idToVersionId

\* C7 as stated: with a delete or read of an identifier absent from the
\* mapping the call completes, and returns a response for that entry that
\* carries the invalid version.
C7_InvalidVersionPropagated ==
    (Called /\ UnknownVersionReference) =>
        /\ ~staging.threw
        /\ \E j \in DOMAIN staging.newStagingResponses :
              staging.newStagingResponses[j].vid = UndefinedStr

\* C7 as amended: the call throws exactly when a delete or read names an
\* identifier absent from the mapping, and then returns nothing.
C7_UnknownVersionThrows ==
    Called =>
        /\ staging.threw <=> UnknownVersionReference
        /\ staging.threw =>
              /\ staging.newStagingResponses = <<>>
              /\ staging.deleteRequests = <<>>
              /\ staging.readRequests = <<>>
        /\ \A j \in DOMAIN staging.newStagingResponses :
              staging.newStagingResponses[j].vid # UndefinedStr

C7_Witness ==
    /\ pc = "threw"
    /\ UnknownVersionReference
    /\ \E i \in DOMAIN requests : requests[i].operation = "create"

\* C8: the compensating deletes produced for the responses of one staging
\* call address pairwise disjoint rows, for every batch.
C8_DisjointCompensations ==
    (pc = "rolledback" /\ executed = Len(staging.newStagingResponses)) =>
        \A i, j \in DOMAIN rollback.transactionRequests :
            i # j => DeleteRow(rollback.transactionRequests[i])
                     # DeleteRow(rollback.transactionRequests[j])

\* ------------------------------------- rollback of any response list
\* Version strings of free-standing responses, each with its integer value.
VidSamples == {[str |-> <<"7">>, int |-> 7], [str |-> <<"1", "0">>, int |-> 10]}
IntOf(str) == (CHOOSE v \in VidSamples : v.str = str).int

ResponseSet ==
    {[id |-> id, vid |-> v.str, operation |-> op, lastModified |-> Now,
      resourceType |-> ResourceTypeName, resource |-> [empty |-> TRUE]] :
        id \in Ids, v \in VidSamples, op \in {"create", "update", "delete", "read"}}

InitRollback ==
    /\ pc = "responses"
    /\ bundleEntryResponses \in SeqsUpTo(ResponseSet, MaxResp)
    /\ responsesBefore = bundleEntryResponses
    /\ tenantId \in Tenants
    /\ requests = <<>>
    /\ idToVersionId = <<>>
    /\ staging = NoStaging
    /\ executed = 0
    /\ store = {}
    /\ rollback = NoRollback
    /\ readResult = <<>>
    /\ populated = NoPopulated
    /\ bundles = <<>>

\* The caller rolls a response list back.
RollbackResponses ==
    /\ pc = "responses"
    /\ rollback' = generateRollbackRequests(bundleEntryResponses, tenantId)
    /\ pc' = "rolledback"
    /\ UNCHANGED <<requests, idToVersionId, tenantId, staging, executed, store,
                   bundleEntryResponses, responsesBefore, readResult, populated, bundles>>

NextRollback == RollbackResponses

SpecRollback == InitRollback /\ [][NextRollback]_vars

\* C3: one compensating delete and one lock release per create/update entry
\* of the list, in order, each with that entry's identifier and version (the
\* delete keyed by the integer value of the version string), and none for
\* delete/read entries.
C3_OneCompensationPerWrite ==
    pc = "rolledback" =>
        LET cu == SelectSeq(bundleEntryResponses, IsCreateOrUpdate)
            del == rollback.transactionRequests
            rel == rollback.itemsToRemoveFromLock
        IN  /\ Len(del) = Len(cu)
            /\ Len(rel) = Len(cu)
            /\ \A k \in DOMAIN cu :
                  /\ DeleteRow(del[k]) = <<buildHashKey(cu[k].id, tenantId), <<IntOf(cu[k].vid)>>>>
                  /\ rel[k] = [id |-> cu[k].id, vid |-> cu[k].vid,
                               resourceType |-> cu[k].resourceType]

C3_Witness ==
    /\ pc = "rolledback"
    /\ Len(rollback.transactionRequests) = 2
    /\ \E i, j, k \in DOMAIN bundleEntryResponses :
          /\ i < j /\ j < k
          /\ bundleEntryResponses[i].operation = "update"
          /\ bundleEntryResponses[j].operation \in {"delete", "read"}
          /\ bundleEntryResponses[k].operation = "create"
          /\ bundleEntryResponses[i].vid # bundleEntryResponses[k].vid

\* ------------------------------------------------ read reconciliation
\* Rows as the store returns them: one with meta.lastUpdated, one without.
RowSet ==
    {[id |-> [S |-> "a"], vid |-> [N |-> <<"1">>], resourceType |-> [S |-> ResourceTypeName],
      documentStatus |-> [S |-> LOCKED],
      meta |-> [M |-> [versionId |-> [S |-> <<"1">>], lastUpdated |-> [S |-> "then"]]]],
     [id |-> [S |-> "b"], vid |-> [N |-> <<"1", "0">>], resourceType |-> [S |-> ResourceTypeName],
      documentStatus |-> [S |-> LOCKED],
      meta |-> [M |-> [versionId |-> [S |-> <<"1", "0">>]]]]}

\* An entry of readResult.Responses: with an Item, or without one.
RawSet == {[Item |-> <<row>>] : row \in RowSet} \cup {[Item |-> <<>>]}

\* readResult: undefined, or an object with its Responses.
ReadResults == {<<>>} \cup {<<[Responses |-> raw]>> : raw \in SeqsUpTo(RawSet, MaxRaw)}

\* Responses as staging leaves them: a read placeholder, a create, a delete.
StagedResponseSet ==
    {[id |-> "a", vid |-> <<"1">>, operation |-> "read", lastModified |-> "",
      resourceType |-> ResourceTypeName, resource |-> [empty |-> TRUE]],
     [id |-> "b", vid |-> <<"1">>, operation |-> "create", lastModified |-> Now,
      resourceType |-> ResourceTypeName,
      resource |-> WithMeta(Resource("b"), [versionId |-> <<"1">>, lastUpdated |-> Now], "b")],
     [id |-> "a", vid |-> <<"1">>, operation |-> "delete", lastModified |-> Now,
      resourceType |-> ResourceTypeName, resource |-> [empty |-> TRUE]]}

InitReconcile ==
    /\ pc = "read"
    /\ bundleEntryResponses \in SeqsUpTo(StagedResponseSet, MaxResp)
    /\ responsesBefore = bundleEntryResponses
    /\ readResult \in ReadResults
    /\ tenantId = ""
    /\ requests = <<>>
    /\ idToVersionId = <<>>
    /\ staging = NoStaging
    /\ executed = 0
    /\ store = {}
    /\ rollback = NoRollback
    /\ populated = NoPopulated
    /\ bundles = <<>>

\* The caller reconciles the raw read result into its response array, which
\* the call updates in place.
Populate ==
    /\ pc = "read"
    /\ LET r == populateBundleEntryResponseWithReadResult(bundleEntryResponses, readResult)
       IN  /\ bundleEntryResponses' = r.array
           /\ populated' = [threw |-> r.threw, returned |-> r.returned]
    /\ pc' = "populated"
    /\ UNCHANGED <<requests, idToVersionId, tenantId, staging, executed, store, rollback,
                   responsesBefore, readResult, bundles>>

NextReconcile == Populate

SpecReconcile == InitReconcile /\ [][NextReconcile]_vars

\* The positions of the read placeholders, in order.
ReadPositions == SelectSeq([i \in DOMAIN responsesBefore |-> i],
                           LAMBDA i : responsesBefore[i].operation = "read")

RawResponses == IF readResult = <<>> THEN <<>> ELSE readResult[1].Responses

\* What reconciling raw entry n writes into a response entry.
FilledFrom(entry, n) ==
    LET row == RawResponses[n].Item[1]
    IN  /\ DOMAIN entry.resource = {"id", "resourceType", "meta"}
        /\ entry.resource.id = row.id.S
        /\ entry.resource.resourceType = row.resourceType.S
        /\ entry.lastModified = IF "lastUpdated" \in DOMAIN row.meta.M
                                THEN row.meta.M.lastUpdated.S ELSE ""

\* The first read placeholder that has no raw result (0: there is none).
FirstUnfulfilled ==
    LET missing == {n \in DOMAIN ReadPositions :
                       n \notin DOMAIN RawResponses \/ RawResponses[n].Item = <<>>}
    IN  IF missing = {} THEN 0 ELSE CHOOSE n \in missing : \A m \in missing : n <= m

\* C6: the Nth read entry receives the Nth raw result, whatever lies between
\* the read entries, and the call fails whenever there are fewer raw results
\* than read placeholders.
C6_ReadsInOrder ==
    pc = "populated" =>
        /\ Len(RawResponses) < Len(ReadPositions) => populated.threw
        /\ ~populated.threw =>
              /\ Len(populated.returned) = Len(responsesBefore)
              /\ \A n \in DOMAIN ReadPositions :
                    FilledFrom(populated.returned[ReadPositions[n]], n)

C6_Witness ==
    /\ pc = "populated"
    /\ ~populated.threw
    /\ Len(ReadPositions) = 2
    /\ ReadPositions[2] > ReadPositions[1] + 1
    /\ RawResponses[1] # RawResponses[2]

\* C9: when the call fails, the read entries before the first unfulfilled
\* placeholder have been overwritten in the caller's array, and the
\* unfulfilled placeholder, every later entry and every non-read entry are
\* as they were.
C9_PartialUpdateOnFailure ==
    (pc = "populated" /\ populated.threw) =>
        /\ FirstUnfulfilled # 0
        /\ Len(bundleEntryResponses) = Len(responsesBefore)
        /\ \A i \in DOMAIN responsesBefore :
              IF responsesBefore[i].operation = "read"
                 /\ i < ReadPositions[FirstUnfulfilled]
              THEN /\ FilledFrom(bundleEntryResponses[i],
                                 Count(Prefix(responsesBefore, i), {"read"}))
                   /\ bundleEntryResponses[i].resource # responsesBefore[i].resource
              ELSE bundleEntryResponses[i] = responsesBefore[i]

C9_Witness ==
    /\ pc = "populated"
    /\ populated.threw
    /\ FirstUnfulfilled = 2
    /\ bundleEntryResponses[ReadPositions[1]] # responsesBefore[ReadPositions[1]]
    /\ \E i \in DOMAIN responsesBefore : responsesBefore[i].operation # "read"

\* ------------------------------------------------ two concurrent bundles
BundleIds == {1, 2}
Other(b) == IF b = 1 THEN 2 ELSE 1

\* What a bundle may carry besides its update of the contended identifier.
Extras(x) ==
    {<<>>, <<Request("read", x, NoId)>>, <<Request("delete", x, NoId)>>}
    \cup {<<Request("update", y, y)>> : y \in Ids \ {x}}

\* Both bundles update identifier x, each from the same snapshot x -> v.
InitConcurrent ==
    /\ pc = "concurrent"
    /\ tenantId \in Tenants
    /\ \E x \in Ids, v \in Versions :
          /\ idToVersionId = [i \in {x} |-> v]
          /\ \E e1, e2 \in Extras(x) :
                bundles = [b \in BundleIds |->
                             [pc |-> "init",
                              requests |-> <<Request("update", x, x)>>
                                           \o (IF b = 1 THEN e1 ELSE e2),
                              staging |-> NoStaging,
                              rollback |-> NoRollback]]
    /\ store = CurrentRows(idToVersionId, tenantId)
    /\ requests = <<>>
    /\ staging = NoStaging
    /\ executed = 0
    /\ rollback = NoRollback
    /\ bundleEntryResponses = <<>>
    /\ responsesBefore = <<>>
    /\ readResult = <<>>
    /\ populated = NoPopulated

StagedRows(st) == {PutRow(p) : p \in Range(st.createRequests) \cup Range(st.updateRequests)}

ConcurrentUnchanged ==
    UNCHANGED <<pc, requests, idToVersionId, tenantId, staging, executed, rollback,
                bundleEntryResponses, responsesBefore, readResult, populated>>

\* Bundle b stages its batch from the shared snapshot.
BundleStage(b) ==
    /\ bundles[b].pc = "init"
    /\ bundles' = [bundles EXCEPT
                     ![b].staging = generateStagingRequests(bundles[b].requests,
                                                            idToVersionId, tenantId),
                     ![b].pc = "staged"]
    /\ UNCHANGED store
    /\ ConcurrentUnchanged

\* The store executes b's staged puts as one conditional transaction: it
\* writes them all when none of their rows exists ...
BundleWrite(b) ==
    /\ bundles[b].pc = "staged"
    /\ StagedRows(bundles[b].staging) \cap store = {}
    /\ store' = store \cup StagedRows(bundles[b].staging)
    /\ bundles' = [bundles EXCEPT ![b].pc = "written"]
    /\ ConcurrentUnchanged

\* ... and rejects them when one of their rows exists already.
BundleRejected(b) ==
    /\ bundles[b].pc = "staged"
    /\ StagedRows(bundles[b].staging) \cap store # {}
    /\ bundles' = [bundles EXCEPT ![b].pc = "rejected"]
    /\ UNCHANGED store
    /\ ConcurrentUnchanged

\* After a rejection b rolls its responses back and executes the
\* compensating deletes.
BundleRollback(b) ==
    /\ bundles[b].pc = "rejected"
    /\ LET r == generateRollbackRequests(bundles[b].staging.newStagingResponses, tenantId)
       IN  /\ bundles' = [bundles EXCEPT ![b].rollback = r, ![b].pc = "rolledback"]
           /\ store' = store \ {DeleteRow(d) : d \in Range(r.transactionRequests)}
    /\ ConcurrentUnchanged

NextConcurrent ==
    \E b \in BundleIds :
        BundleStage(b) \/ BundleWrite(b) \/ BundleRejected(b) \/ BundleRollback(b)

SpecConcurrent == InitConcurrent /\ [][NextConcurrent]_vars

\* The row both bundles contend for: (x, v + 1), under the tenant's hash key.
ContendedId == bundles[1].requests[1].resource.id
ContendedRow ==
    <<buildHashKey(ContendedId, tenantId), <<idToVersionId[ContendedId] + 1>>>>

\* C10: both bundles stage a put for the row (X, V + 1) and the compensating
\* delete of either is keyed by it; when one bundle's put is rejected and
\* that bundle rolls back, its delete addresses the row the other staged.
C10_RollbackHitsOtherBundlesRow ==
    \A b \in BundleIds :
        /\ bundles[b].pc # "init" =>
              PutRow(bundles[b].staging.updateRequests[1]) = ContendedRow
        /\ bundles[b].pc = "rolledback" =>
              /\ DeleteRow(bundles[b].rollback.transactionRequests[1]) = ContendedRow
              /\ bundles[Other(b)].pc = "written" =>
                    /\ ContendedRow \in StagedRows(bundles[Other(b)].staging)
                    /\ ContendedRow \notin store

C10_Witness ==
    \E b \in BundleIds :
        /\ bundles[b].pc = "rolledback"
        /\ bundles[Other(b)].pc = "written"
        /\ ContendedRow \notin store
        /\ idToVersionId[ContendedId] + 1 >= 10

====
